---- MODULE Spec2Model ----
(***************************************************************************)
(* tools/update_oids.py: regenerate the autogenerated region of            *)
(* psycopg/postgres.py and psycopg_c/_psycopg/oids.pxd from the output of  *)
(* catalog queries run through psql.                                       *)
(*                                                                         *)
(* A byte string is a sequence of tokens.  A token is one byte ("\n",      *)
(* "\r", " ", "#") or a run of bytes the script never looks inside         *)
(* ("autogenerated:", "start", "end", a piece of generated text).          *)
(***************************************************************************)
EXTENDS Integers, Sequences, FiniteSets, TLC

VARIABLES
    disk,       \* file name -> bytes of the file
    db,         \* the catalog psql talks to: query -> bytes of stdout
    pc,         \* position of the process
    fn,         \* update_file's parameter fn
    queries,    \* update_file's parameter queries
    lines,      \* update_file's local lines
    new,        \* update_file's local new
    qi,         \* number of queries the for loop has completed
    err,        \* the exception that ended the process, or "none"
    log,        \* history: what the process did in this run, in order
    runs,       \* history: number of runs of the script started so far
    disk0,      \* history: disk when this run started
    pre,        \* history: bytes update_file read from fn
    raw,        \* history: new before the indentation of line 113
    last,       \* history: file -> the latest completed update_file on it
    prev,       \* history: last[fn] as it was when update_file read fn
    clean       \* history: file -> it started with one start marker before
                \* one end marker and no line written into it since matches
                \* the marker pattern

vars == <<disk, db, pc, fn, queries, lines, new, qi, err, log, runs, disk0,
          pre, raw, last, prev, clean>>

----------------------------------------------------------------------------
(* Bytes *)

LF == "\n"

CR == "\r"

SP == " "

HASH == "#"

AUTO == "autogenerated:"

START == "start"

END == "end"

\* Number of runs of the script the model follows.
MaxRuns == 2

\* b" " * 4
Indent == 4

Spaces(n) == [i \in 1..n |-> SP]

\* bytes.splitlines(): lines end at "\n", "\r" or "\r\n"; the terminators are
\* dropped; what follows the last terminator is a line only if not empty.
RECURSIVE SplitFrom(_, _, _)
SplitFrom(b, i, cur) ==
    IF i > Len(b) THEN (IF cur = <<>> THEN <<>> ELSE <<cur>>)
    ELSE IF b[i] = LF THEN <<cur>> \o SplitFrom(b, i + 1, <<>>)
    ELSE IF b[i] = CR
        THEN <<cur>> \o SplitFrom(b, IF i + 1 <= Len(b) /\ b[i + 1] = LF
                                     THEN i + 2 ELSE i + 1, <<>>)
    ELSE SplitFrom(b, i + 1, Append(cur, b[i]))

splitlines(b) == SplitFrom(b, 1, <<>>)

\* b"\n".join(ls)
RECURSIVE join(_)
join(ls) ==
    IF ls = <<>> THEN <<>>
    ELSE IF Len(ls) = 1 THEN ls[1]
    ELSE ls[1] \o <<LF>> \o join(Tail(ls))

\* Variant: the second write is missing.
FileBytesNoFinalNewline(ls) == join(ls)

\* f.write(b"\n".join(lines)); f.write(b"\n")
FileBytes(ls) == join(ls) \o <<LF>>

\* Variant: [b" " * 4 + line for line in new]
indentEveryLine(ls) == [i \in 1..Len(ls) |-> Spaces(Indent) \o ls[i]]

\* [b" " * 4 + line if line else b"" for line in new]
indent(ls) ==
    [i \in 1..Len(ls) |-> IF ls[i] # <<>> THEN Spaces(Indent) \o ls[i] ELSE <<>>]

\* Index of the first token of line at or after i that is not whitespace
\* (Len(line) + 1 when there is none): what \s* consumes.
RECURSIVE SkipWs(_, _)
SkipWs(line, i) ==
    IF i <= Len(line) /\ line[i] = SP THEN SkipWs(line, i + 1) ELSE i

\* re.match(rb"\s*#\s*autogenerated:\s+(start|end)", line)
ReMatch(line) ==
    LET h == SkipWs(line, 1)
        a == SkipWs(line, h + 1)
        k == SkipWs(line, a + 1)
    IN  /\ h <= Len(line) /\ line[h] = HASH
        /\ a <= Len(line) /\ line[a] = AUTO
        /\ k > a + 1
        /\ k <= Len(line) /\ line[k] \in {START, END}

\* [i for i, line in enumerate(lines) if re.match(...)]: 0-based, ascending
MarkerIndices(ls) ==
    SelectSeq([i \in 1..Len(ls) |-> i - 1], LAMBDA i : ReMatch(ls[i + 1]))

\* Variant: the first two of two or more indices are taken.
UnpacksAtLeastTwo(m) == Len(m) >= 2

\* istart, iend = [...]: the unpacking succeeds on exactly two indices
Unpacks(m) == Len(m) = 2

\* Variant: the lines of a query go before those of the queries run earlier.
extendFront(acc, out) == splitlines(out) \o acc

\* new.extend(out.stdout.splitlines())
extend(acc, out) == acc \o splitlines(out)

\* Variant: lines[istart + 1 : istart + 1] = new, an insertion that keeps the
\* old region.
SpliceInsert(ls, istart, iend, repl) ==
    SubSeq(ls, 1, istart + 1) \o repl \o SubSeq(ls, istart + 2, Len(ls))

\* Variant: lines[istart + 1 : iend + 1] = new, the end marker is replaced too.
SpliceThroughEnd(ls, istart, iend, repl) ==
    SubSeq(ls, 1, istart + 1) \o repl \o SubSeq(ls, iend + 2, Len(ls))

\* Variant: lines[istart : iend] = new, the start marker is replaced too.
SpliceFromStart(ls, istart, iend, repl) ==
    SubSeq(ls, 1, istart) \o repl \o SubSeq(ls, iend + 1, Len(ls))

\* lines[istart + 1 : iend] = new
SpliceLines(ls, istart, iend, repl) ==
    SubSeq(ls, 1, istart + 1) \o repl \o SubSeq(ls, iend + 1, Len(ls))

----------------------------------------------------------------------------
(* The two pipelines *)

PY == "psycopg/psycopg/postgres.py"

PXD == "psycopg_c/psycopg_c/_psycopg/oids.pxd"

Files == {PY, PXD}

\* queries = [version_sql, py_types_sql, py_ranges_sql, py_multiranges_sql]
PyQueries == <<"version_sql", "py_types_sql", "py_ranges_sql", "py_multiranges_sql">>

\* queries = [version_sql, cython_oids_sql]
CyQueries == <<"version_sql", "cython_oids_sql">>

QueryNames ==
    {"version_sql", "py_types_sql", "py_ranges_sql", "py_multiranges_sql",
     "cython_oids_sql"}

----------------------------------------------------------------------------
(* The environment: catalogs and target files *)

\* stdout of psql -AXqt: every row followed by "\n".  version_sql's only row
\* is "\n# Generated from PostgreSQL <v>\n".
Pg13 ==
    [q \in QueryNames |->
        CASE q = "version_sql" -> <<LF, HASH, SP, "v13", LF, LF>>
          [] q = "py_types_sql" -> <<"t1", LF>>
          [] q = "py_ranges_sql" -> <<"r1", LF>>
          [] q = "py_multiranges_sql" -> <<>>
          [] q = "cython_oids_sql" -> <<"o1", LF>>]

Pg14 ==
    [q \in QueryNames |->
        CASE q = "version_sql" -> <<LF, HASH, SP, "v14", LF, LF>>
          [] q = "py_types_sql" -> <<"t1", LF, "t2", LF>>
          [] q = "py_ranges_sql" -> <<"r1", LF>>
          [] q = "py_multiranges_sql" -> <<"m1", LF>>
          [] q = "cython_oids_sql" -> <<"o2", LF, "o1", LF>>]

\* A catalog whose queries return no row at all.
PgEmpty == [q \in QueryNames |-> <<>>]

\* A catalog whose rows read like marker comments.
PgMarker ==
    [q \in QueryNames |->
        CASE q = "py_ranges_sql" -> <<HASH, SP, AUTO, SP, END, LF>>
          [] q = "cython_oids_sql" -> <<"o1", LF, HASH, AUTO, SP, SP, START, LF>>
          [] OTHER -> <<>>]

Catalogs == {Pg13, Pg14, PgEmpty, PgMarker}

StartLine == <<HASH, SP, AUTO, SP, START>>

EndLine == <<HASH, SP, AUTO, SP, END>>

\* One start marker, then one end marker.
GoodFile == <<"x", LF>> \o StartLine \o <<LF, SP, "old", LF>> \o EndLine \o <<LF, "y", LF>>

\* The same shape with indented markers, "\r\n" and "\r" line ends, an empty
\* region and no terminator after the last line.
GoodFileCRLF ==
    <<SP>> \o StartLine \o <<"ed", CR, LF, SP, HASH, AUTO, SP, SP, END, CR, "y">>

NoMarkerFile == <<"x", LF, HASH, SP, AUTO, START, LF>>

OneMarkerFile == StartLine \o <<LF, "old", LF>>

ThreeMarkerFile == StartLine \o <<LF>> \o EndLine \o <<LF, "x", LF>> \o EndLine \o <<LF>>

EndFirstFile == <<"x", LF>> \o EndLine \o <<LF, "old", LF>> \o StartLine \o <<LF>>

TwoStartFile == StartLine \o <<LF, "old", LF>> \o StartLine \o <<LF, "y", LF>>

TwoEndFile == EndLine \o <<LF>> \o EndLine \o <<LF>>

TargetFiles ==
    {GoodFile, GoodFileCRLF, NoMarkerFile, OneMarkerFile, ThreeMarkerFile,
     EndFirstFile, TwoStartFile, TwoEndFile}

\* The disks the first run can start from.
InitDisks == [Files -> TargetFiles]

\* black -q fn rewrites the code of the file in its own style and keeps the
\* comments and the line structure.
BlackToken(c) ==
    CASE c = "t1" -> "T1"
      [] c = "t2" -> "T2"
      [] c = "r1" -> "R1"
      [] c = "m1" -> "M1"
      [] OTHER -> c

BlackBytes(b) == [i \in 1..Len(b) |-> BlackToken(b[i])]

----------------------------------------------------------------------------
(* The file format contract *)

\* 1-based positions of the lines that match the marker pattern
Markers(ls) == {i \in 1..Len(ls) : ReMatch(ls[i])}

\* START or END: the word the pattern's group matched
MarkerKind(line) == line[SkipWs(line, SkipWs(line, SkipWs(line, 1) + 1) + 1)]

\* Exactly one start marker and one end marker, the start before the end.
WellFormedLines(ls) ==
    \E s, e \in 1..Len(ls) :
        /\ s < e
        /\ Markers(ls) = {s, e}
        /\ MarkerKind(ls[s]) = START
        /\ MarkerKind(ls[e]) = END

WellFormed(b) == WellFormedLines(splitlines(b))

StartIdx(ls) == CHOOSE s \in Markers(ls) : MarkerKind(ls[s]) = START

EndIdx(ls) == CHOOSE e \in Markers(ls) : MarkerKind(ls[e]) = END

----------------------------------------------------------------------------
(* The script *)

Init ==
    /\ disk \in InitDisks
    /\ db \in Catalogs
    /\ pc = "main"
    /\ fn = PY
    /\ queries = <<>>
    /\ lines = <<>>
    /\ new = <<>>
    /\ qi = 0
    /\ err = "none"
    /\ log = <<>>
    /\ runs = 1
    /\ disk0 = disk
    /\ pre = <<>>
    /\ raw = <<>>
    /\ last = [f \in Files |-> <<>>]
    /\ prev = <<>>
    /\ clean = [f \in Files |-> WellFormed(disk[f])]

\* Variant: black follows update_file in both functions.
AfterUpdateFileBlack(f) == "black"

\* Where update_file(fn, queries) returns to: update_python_oids goes on to
\* black, update_cython_oids returns to the end of __main__.
AfterUpdateFile(f) == IF f = PY THEN "black" ELSE "exit"

\* __main__ calls update_python_oids(), which calls update_file(fn, queries)
UpdatePythonOids ==
    /\ pc = "main"
    /\ fn' = PY
    /\ queries' = PyQueries
    /\ pc' = "read"
    /\ UNCHANGED <<disk, db, lines, new, qi, err, log, runs, disk0, pre, raw,
                   last, prev, clean>>

\* with fn.open("rb") as f: lines = f.read().splitlines(); new = []
ReadFile ==
    /\ pc = "read"
    /\ lines' = splitlines(disk[fn])
    /\ new' = <<>>
    /\ qi' = 0
    /\ pc' = "psql"
    /\ log' = Append(log, <<"read", fn>>)
    /\ pre' = disk[fn]
    /\ raw' = <<>>
    /\ prev' = last[fn]
    /\ UNCHANGED <<disk, db, fn, queries, err, runs, disk0, last, clean>>

\* out = sp.run(["psql", ...query], stdout=sp.PIPE, check=True)
\* new.extend(out.stdout.splitlines())
RunQuery ==
    /\ pc = "psql"
    /\ qi < Len(queries)
    /\ new' = extend(new, db[queries[qi + 1]])
    /\ qi' = qi + 1
    /\ log' = Append(log, <<"psql", queries[qi + 1]>>)
    /\ UNCHANGED <<disk, db, pc, fn, queries, lines, err, runs, disk0, pre,
                   raw, last, prev, clean>>

\* Variant: check=False, the failure is recorded and the loop goes on.
QueryFailsUnchecked ==
    /\ pc = "psql"
    /\ qi < Len(queries)
    /\ log' = Append(log, <<"psql failed", queries[qi + 1]>>)
    /\ qi' = qi + 1
    /\ UNCHANGED <<disk, db, pc, fn, queries, lines, new, err, runs, disk0,
                   pre, raw, last, prev, clean>>

\* sp.run(..., check=True) raises: psql cannot run or exits non-zero
QueryFails ==
    /\ pc = "psql"
    /\ qi < Len(queries)
    /\ log' = Append(log, <<"psql failed", queries[qi + 1]>>)
    /\ pc' = "crashed"
    /\ err' = "CalledProcessError"
    /\ UNCHANGED <<disk, db, fn, queries, lines, new, qi, runs, disk0, pre,
                   raw, last, prev, clean>>

\* The loop is over: indent new, find the markers, replace the region.
Splice ==
    /\ pc = "psql"
    /\ qi = Len(queries)
    /\ LET m == MarkerIndices(lines)
       IN  /\ Unpacks(m)
           /\ lines' = SpliceLines(lines, m[1], m[2], indent(new))
    /\ new' = indent(new)
    /\ raw' = new
    /\ pc' = "write"
    /\ UNCHANGED <<disk, db, fn, queries, qi, err, log, runs, disk0, pre,
                   last, prev, clean>>

\* istart, iend = [...] raises ValueError: not exactly two matching lines
UnpackFails ==
    /\ pc = "psql"
    /\ qi = Len(queries)
    /\ ~Unpacks(MarkerIndices(lines))
    /\ new' = indent(new)
    /\ raw' = new
    /\ pc' = "crashed"
    /\ err' = "ValueError"
    /\ UNCHANGED <<disk, db, fn, queries, lines, qi, log, runs, disk0, pre,
                   last, prev, clean>>

\* with fn.open("wb") as f: f.write(b"\n".join(lines)); f.write(b"\n")
WriteFile ==
    /\ pc = "write"
    /\ disk' = [disk EXCEPT ![fn] = FileBytes(lines)]
    /\ log' = Append(log, <<"write", fn>>)
    /\ last' = [last EXCEPT ![fn] = <<[pre |-> pre, raw |-> raw,
                                       written |-> FileBytes(lines)]>>]
    /\ pc' = AfterUpdateFile(fn)
    /\ clean' = [clean EXCEPT ![fn] = clean[fn] /\ MarkerIndices(new) = <<>>]
    /\ UNCHANGED <<db, fn, queries, lines, new, qi, err, runs, disk0, pre,
                   raw, prev>>

\* sp.check_call(["black", "-q", fn]) returns
Black ==
    /\ pc = "black"
    /\ disk' = [disk EXCEPT ![fn] = BlackBytes(disk[fn])]
    /\ log' = Append(log, <<"black", fn>>)
    /\ pc' = "cython"
    /\ UNCHANGED <<db, fn, queries, lines, new, qi, err, runs, disk0, pre,
                   raw, last, prev, clean>>

\* sp.check_call(["black", "-q", fn]) raises: the file is left as written
BlackFails ==
    /\ pc = "black"
    /\ log' = Append(log, <<"black", fn>>)
    /\ pc' = "crashed"
    /\ err' = "CalledProcessError"
    /\ UNCHANGED <<disk, db, fn, queries, lines, new, qi, runs, disk0, pre,
                   raw, last, prev, clean>>

\* __main__ calls update_cython_oids(), which calls update_file(fn, queries)
UpdateCythonOids ==
    /\ pc = "cython"
    /\ fn' = PXD
    /\ queries' = CyQueries
    /\ pc' = "read"
    /\ UNCHANGED <<disk, db, lines, new, qi, err, log, runs, disk0, pre, raw,
                   last, prev, clean>>

\* The developer runs the script again, against any catalog.
RunAgain ==
    /\ pc \in {"exit", "crashed"}
    /\ runs < MaxRuns
    /\ runs' = runs + 1
    /\ db' \in Catalogs
    /\ pc' = "main"
    /\ fn' = PY
    /\ queries' = <<>>
    /\ lines' = <<>>
    /\ new' = <<>>
    /\ qi' = 0
    /\ err' = "none"
    /\ log' = <<>>
    /\ disk0' = disk
    /\ pre' = <<>>
    /\ raw' = <<>>
    /\ prev' = <<>>
    /\ UNCHANGED <<disk, last, clean>>

Next ==
    \/ UpdatePythonOids
    \/ ReadFile
    \/ RunQuery
    \/ QueryFails
    \/ Splice
    \/ UnpackFails
    \/ WriteFile
    \/ Black
    \/ BlackFails
    \/ UpdateCythonOids
    \/ RunAgain

Spec == Init /\ [][Next]_vars

----------------------------------------------------------------------------
(* Properties *)

Range(q) == {q[i] : i \in 1..Len(q)}

\* update_file has returned and nothing has touched fn since.
Returned == pc \in {"black", "exit"}

\* update_file has read fn in this run, so pre holds what it read.
HasRead == pc \in {"psql", "write", "black", "exit", "crashed"}

\* C1 (region isolation): when update_file returns from a file that had one
\* start marker before one end marker, the lines up to and including the
\* start marker and the lines from the end marker on are the lines of the
\* file as it was read; between them stand exactly the new lines.
C1_RegionIsolation ==
    (Returned /\ WellFormed(pre)) =>
        LET L == splitlines(pre)
            L2 == splitlines(disk[fn])
            s == StartIdx(L)
            t == Len(L) - EndIdx(L)
        IN  /\ Len(L2) = s + Len(new) + t + 1
            /\ SubSeq(L2, 1, s) = SubSeq(L, 1, s)
            /\ SubSeq(L2, Len(L2) - t, Len(L2)) = SubSeq(L, EndIdx(L), Len(L))

\* A well-formed file with lines on both sides of the region was rewritten
\* with a different region.
C1_Witness ==
    /\ Returned
    /\ WellFormed(pre)
    /\ new # <<>>
    /\ disk[fn] # pre
    /\ StartIdx(splitlines(pre)) > 1
    /\ EndIdx(splitlines(pre)) < Len(splitlines(pre))

\* C2 (marker count): update_file on a file with zero, one or more than two
\* marker lines never gets to the write: it stays in the query loop or has
\* crashed, with the file as it was read and no write of it in this run; once
\* the queries are done the crash is the ValueError of the unpacking.
C2_MarkerCount ==
    (HasRead /\ Cardinality(Markers(splitlines(pre))) # 2) =>
        /\ pc \in {"psql", "crashed"}
        /\ disk[fn] = pre
        /\ <<"write", fn>> \notin Range(log)
        /\ (pc = "crashed" /\ qi = Len(queries)) => err = "ValueError"

\* The queries all succeeded on a file with three marker lines and the
\* unpacking raised.
C2_Witness ==
    /\ pc = "crashed"
    /\ err = "ValueError"
    /\ Cardinality(Markers(splitlines(pre))) > 2
    /\ raw # <<>>
    /\ disk[fn] = pre

\* C3 (marker shape): update_file on a file whose two marker lines are not
\* one start followed by one end never gets to the write and leaves the file
\* as it was read.
C3_MarkerShape ==
    (HasRead /\ Cardinality(Markers(splitlines(pre))) = 2 /\ ~WellFormed(pre)) =>
        /\ pc \in {"psql", "crashed"}
        /\ disk[fn] = pre

\* The call of update_file that just ended (returned, or raised at the
\* unpacking) repeats the previous completed call on fn: that call started
\* from a well-formed file, the file still holds what it wrote, and the
\* queries returned the same lines.
Repeats ==
    /\ Returned \/ (pc = "crashed" /\ err = "ValueError")
    /\ prev # <<>>
    /\ WellFormed(prev[1].pre)
    /\ pre = prev[1].written
    /\ raw = prev[1].raw

\* C4 as claimed (splice idempotence): the repeated call succeeds and leaves
\* the file byte-identical to what the first call wrote.
C4_Original == Repeats => (pc # "crashed" /\ disk[fn] = prev[1].written)

\* C4 as amended: the repeated call leaves the file byte-identical to what
\* the first call wrote; it succeeds when no line of the query results
\* matches the marker pattern, and otherwise raises at the unpacking without
\* writing.
C4_Idempotence ==
    Repeats =>
        /\ disk[fn] = prev[1].written
        /\ pc = "crashed" <=> MarkerIndices(raw) # <<>>

\* A second successful call with the same, non-empty, results.
C4_Witness == Repeats /\ Returned /\ raw # <<>> /\ runs = 2

\* Every line followed by one "\n".
RECURSIVE Terminated(_)
Terminated(ls) ==
    IF ls = <<>> THEN <<>> ELSE ls[1] \o <<LF>> \o Terminated(Tail(ls))

\* C5 (splice result): when update_file returns from a well-formed file
\* with lines L, start marker at s and end marker at e, the file is L[..s],
\* then the formatted lines, then L[e..], every line followed by one "\n";
\* with no formatted line the two markers are adjacent.
C5_SpliceResult ==
    (Returned /\ WellFormed(pre)) =>
        LET L == splitlines(pre)
            s == StartIdx(L)
            e == EndIdx(L)
        IN  /\ disk[fn] =
                Terminated(SubSeq(L, 1, s) \o new \o SubSeq(L, e, Len(L)))
            /\ new = <<>> =>
                /\ splitlines(disk[fn])[s] = L[s]
                /\ splitlines(disk[fn])[s + 1] = L[e]

\* An empty replacement removed a non-empty region.
C5_Witness ==
    /\ Returned
    /\ WellFormed(pre)
    /\ new = <<>>
    /\ EndIdx(splitlines(pre)) > StartIdx(splitlines(pre)) + 1

\* C6 (query failure): a failed psql invocation is the last thing the run
\* does: the process has crashed with CalledProcessError, the queries run in
\* this call are the declared ones up to the failed one, each once, and the
\* file is not written and holds what update_file read.
C6_QueryFailure ==
    \A i \in 1..Len(log) :
        log[i][1] = "psql failed" =>
            /\ i = Len(log)
            /\ pc = "crashed"
            /\ err = "CalledProcessError"
            /\ log[i][2] = queries[qi + 1]
            /\ \A j \in 1..qi : log[i - j] = <<"psql", queries[qi + 1 - j]>>
            /\ log[i - qi - 1] = <<"read", fn>>
            /\ <<"write", fn>> \notin Range(log)
            /\ disk[fn] = pre

\* The third query of postgres.py's pipeline failed after two that returned
\* rows.
C6_Witness ==
    /\ pc = "crashed"
    /\ log # <<>>
    /\ log[Len(log)] = <<"psql failed", "py_ranges_sql">>
    /\ new # <<>>

\* The indentation has been applied: raw holds the lines before it, new the
\* lines after it.
Indented ==
    pc \in {"write", "black", "cython", "exit"} \/ (pc = "crashed" /\ err = "ValueError")

\* C7 (indentation): the formatted lines are as many as the captured lines
\* and in the same order; a non-empty line is the captured line after
\* exactly four spaces, an empty line is empty.
C7_Indentation ==
    Indented =>
        /\ Len(new) = Len(raw)
        /\ \A i \in 1..Len(raw) :
            IF raw[i] = <<>> THEN new[i] = <<>>
            ELSE new[i] = <<SP, SP, SP, SP>> \o raw[i]

\* Lines were formatted, an empty one and a non-empty one among them.
C7_Witness ==
    /\ Indented
    /\ \E i, j \in 1..Len(raw) : raw[i] = <<>> /\ raw[j] # <<>>

\* The queries of each target file, as the two functions declare them.
Declared(f) == IF f = PY THEN PyQueries ELSE CyQueries

\* The rows of the first n declared queries of f, query after query.
RECURSIVE Rows(_, _)
Rows(f, n) ==
    IF n = 0 THEN <<>> ELSE Rows(f, n - 1) \o splitlines(db[Declared(f)[n]])

\* A row as it stands in the file.
InFile(row) == IF row = <<>> THEN <<>> ELSE <<SP, SP, SP, SP>> \o row

\* The psql invocations of the current call of update_file, in order.
Invoked ==
    LET q == SelectSeq(log, LAMBDA e : e[1] \in {"psql", "psql failed"})
        k == Len(SelectSeq(log, LAMBDA e : e = <<"read", PXD>>))
    IN  IF k = 0 THEN q
        ELSE SubSeq(q, Len(PyQueries) + 1, Len(q))

\* C8 (order preservation): the queries are invoked one at a time in the
\* declared order, and when update_file returns the lines after the first
\* marker line are the rows of the declared queries, in the declared order
\* and within a query in the order psql printed them.
C8_OrderPreservation ==
    /\ HasRead =>
        /\ Len(Invoked) <= Len(Declared(fn))
        /\ \A i \in 1..Len(Invoked) : Invoked[i][2] = Declared(fn)[i]
    /\ Returned =>
        LET L2 == splitlines(disk[fn])
            s == MarkerIndices(splitlines(pre))[1] + 1
            R == Rows(fn, Len(Declared(fn)))
        IN  /\ Len(L2) >= s + Len(R)
            /\ \A i \in 1..Len(R) : L2[s + i] = InFile(R[i])

\* A file was written from queries that returned different rows, one of them
\* several rows.
C8_Witness == Returned /\ db = Pg14 /\ fn = PXD

\* What a run does besides the queries.
Steps == SelectSeq(log, LAMBDA e : e[1] \in {"read", "write", "black"})

FullRun ==
    <<(<<"read", PY>>), (<<"write", PY>>), (<<"black", PY>>),
      (<<"read", PXD>>), (<<"write", PXD>>)>>

\* C9 (orchestration order): a run reads and writes postgres.py, runs black
\* on it, then reads and writes oids.pxd, each step at most once and in this
\* order, and all of them when the run ends normally; oids.pxd holds what it
\* held at the start of the run until it is written; a crash before oids.pxd
\* is read leaves it so, and a crash after leaves postgres.py written and
\* passed through black.
C9_Orchestration ==
    /\ Len(Steps) <= Len(FullRun)
    /\ Steps = SubSeq(FullRun, 1, Len(Steps))
    /\ pc = "exit" => Steps = FullRun
    /\ <<"write", PXD>> \notin Range(log) => disk[PXD] = disk0[PXD]
    /\ <<"write", PY>> \notin Range(log) => disk[PY] = disk0[PY]
    /\ (pc = "crashed" /\ <<"read", PXD>> \in Range(log)) =>
        /\ last[PY] # <<>>
        /\ disk[PY] = BlackBytes(last[PY][1].written)
        /\ Len(Steps) = 4

\* The run crashed in the second pipeline with postgres.py rewritten.
C9_Witness ==
    /\ pc = "crashed"
    /\ fn = PXD
    /\ disk[PY] # disk0[PY]
    /\ disk[PXD] = disk0[PXD]

\* C10 (marker preservation): a file that started with one start marker
\* before one end marker, and into which no line matching the marker pattern
\* has been written, still has that shape, and the unpacking never raises on
\* it; a write of n lines matching the pattern into a file with two marker
\* lines leaves 2 + n marker lines, on which the next unpacking raises.
C10_MarkerPreservation ==
    /\ \A f \in Files : clean[f] => WellFormed(disk[f])
    /\ (pc = "crashed" /\ err = "ValueError") => ~clean[fn]
    /\ Returned =>
        /\ Cardinality(Markers(splitlines(pre))) = 2
        /\ Cardinality(Markers(splitlines(disk[fn]))) = 2 + Len(MarkerIndices(new))
    /\ (pc = "psql" /\ prev # <<>> /\ MarkerIndices(prev[1].raw) # <<>>
            /\ pre = prev[1].written) => ~Unpacks(MarkerIndices(lines))

\* The second run wrote a file that the first run had written, both without
\* marker-like rows.
C10_Witness ==
    /\ Returned
    /\ runs = 2
    /\ prev # <<>>
    /\ clean[fn]
    /\ raw # <<>>

====
